---- MODULE Spec2Model ----
(***************************************************************************)
(* Reverse-diffusion sampling (protdiff/sampling.py) and the TMalign       *)
(* wrapper (protdiff/tmalign.py) of foldingdiff.                           *)
(*                                                                         *)
(* Tensors are records [shape, data]: shape is <<batch, len, channels>>    *)
(* and data maps every index triple to a number.  Floating point values    *)
(* are represented in integer units (fixed point); elementwise arithmetic  *)
(* follows torch's broadcasting rules on the shapes.                       *)
(***************************************************************************)
EXTENDS Integers, Sequences, FiniteSets, TLC

\* ------------------------------------------------------------------ bounds
MaxT == 2
MaxBatch == 2
MaxLen == 2
MaxChannels == 2
MaxRefs == 11
MaxThreads == 2

\* Optional values: None is the empty tuple, a value v that is set is <<v>>
None == <<>>
\* the values noise_modulo takes when it is set (a positive scalar period)
Moduli == {<<3>>}
\* seeds of the Gaussian draws torch.randn / torch.randn_like can produce
NoiseSeeds == {1, 2}
\* sizes a denoiser may give one dimension of its output
DevSizes == {1, 3}
\* the denoisers and schedules sampled: [model, sched]
Scenarios == {[model |-> "ident", sched |-> 1], [model |-> "masked", sched |-> 2]}

VARIABLES
    pc,            \* position of sample(): start, loop, returned, done, error
    batch_size, seq_lens, seq_max_len, channels, timesteps, noise_modulo,
    scenario,      \* the denoiser and the beta schedule passed in
    dev,           \* the step at which the denoiser breaks its shape contract, if any
    img,           \* p_sample_loop: current state tensor
    imgs,          \* p_sample_loop: trajectory
    k,             \* p_sample_loop: iterations of the for loop completed so far
    img0,          \* the initial noise state (history)
    calls,         \* the completed p_sample calls, in order; seed is that of the
                   \* noise the call drew, 0 when it drew none (history)
    mismatch,      \* the denoiser returned a shape different from x (history)
    result,        \* what sample() returned
    tmpc,          \* position of max_tm_across_refs: idle, map, returned, raised
    installed,     \* shutil.which("TMalign") finds the executable
    references,    \* per reference, what TMalign does when run on it
    n_threads,     \* size of the worker pool
    taskq,         \* chunks not yet handed to a worker, in order
    workers,       \* per worker, the chunk it runs and its progress
    mapres,        \* the pool's MapResult: number_left, success, value
    runs,          \* per reference, how many times run_tmalign ran on it (history)
    tmresult       \* what max_tm_across_refs returned

samplerVars == <<pc, batch_size, seq_lens, seq_max_len, channels, timesteps,
                 noise_modulo, scenario, dev, img, imgs, k, img0, calls,
                 mismatch, result>>
tmVars == <<tmpc, installed, references, n_threads, taskq, workers, mapres,
            runs, tmresult>>
vars == <<samplerVars, tmVars>>

\* ------------------------------------------------------------------ tensors
Min(a, b) == IF a < b THEN a ELSE b

Idx(shape) == (1..shape[1]) \X (1..shape[2]) \X (1..shape[3])

\* torch broadcasting of two rank-3 shapes; 0 marks dimensions that cannot be
\* broadcast (torch raises RuntimeError)
BroadcastShapes(s, r) ==
    [d \in 1..3 |-> IF s[d] = r[d] THEN s[d]
                    ELSE IF s[d] = 1 THEN r[d]
                    ELSE IF r[d] = 1 THEN s[d]
                    ELSE 0]

Compatible(s) == \A d \in 1..3 : s[d] > 0

\* element p of tensor a once broadcast to a shape containing p
At(a, p) == a.data[<<IF a.shape[1] = 1 THEN 1 ELSE p[1],
                     IF a.shape[2] = 1 THEN 1 ELSE p[2],
                     IF a.shape[3] = 1 THEN 1 ELSE p[3]>>]

EmptyTensor == [shape |-> <<0, 0, 0>>, data |-> <<>>]

\* torch.randn(shape): one of the draws, identified by its seed
Randn(shape, n) ==
    [shape |-> shape,
     data |-> [p \in Idx(shape) |-> IF n = 1 THEN -1 ELSE p[1] + 2 * p[2] + 4 * p[3]]]

\* utils.broadcast_mod(x, m): wrap every element into [0, m)
broadcast_mod(x, m) ==
    [shape |-> x.shape, data |-> [p \in Idx(x.shape) |-> x.data[p] % m]]

\* utils.extract(a, t, x.shape): the coefficient of timestep t, shaped (b, 1, 1)
extract(value, b) ==
    [shape |-> <<b, 1, 1>>, data |-> [p \in Idx(<<b, 1, 1>>) |-> value]]

\* ------------------------------------------------------------------ schedule
\* the coefficients p_sample derives from betas, in integer units
sqrt_recip_alphas(sched, t) == IF sched = 1 THEN 1 ELSE 2
betas(sched, t) == IF sched = 1 THEN 1 ELSE t + 1
sqrt_one_minus_alphas_cumprod(sched, t) == IF sched = 1 THEN 1 ELSE 2
sqrt_posterior_variance(sched, t) == IF sched = 1 THEN 1 ELSE t + 1

\* ------------------------------------------------------------------ denoiser
\* shape of the denoiser's output at step t for input shape s
ModelShape(s, t) ==
    IF dev.step = t THEN [s EXCEPT ![dev.dim] = dev.size] ELSE s

\* model(x, t, attention_mask=attn_mask)
Model(x, t, attn_mask) ==
    LET os == ModelShape(x.shape, t)
        clamp(p) == <<Min(p[1], x.shape[1]), Min(p[2], x.shape[2]), Min(p[3], x.shape[3])>>
    IN [shape |-> os,
        data |-> [p \in Idx(os) |->
                    IF scenario.model = "ident" THEN x.data[clamp(p)]
                    ELSE IF attn_mask[<<clamp(p)[1], clamp(p)[2]>>] THEN t + 1 ELSE 0]]

\* ------------------------------------------------------------------ p_sample
\* lines 37-40: the attention mask; an index past x.shape[0] raises IndexError
AttnMaskFails(x, lens) == Len(lens) > x.shape[1]

AttnMask(x, lens) ==
    [q \in (1..x.shape[1]) \X (1..x.shape[2]) |->
        q[1] <= Len(lens) /\ q[2] <= lens[q[1]]]

\* lines 44-49: shape of model_mean, by broadcasting left to right
MeanShape(x, eps, b) ==
    LET s1 == BroadcastShapes(<<b, 1, 1>>, eps.shape)
        s2 == IF Compatible(s1) THEN BroadcastShapes(x.shape, s1) ELSE s1
    IN IF Compatible(s2) THEN BroadcastShapes(<<b, 1, 1>>, s2) ELSE s2

\* lines 44-49: model_mean (Equation 11)
ModelMean(x, eps, b, sched, t) ==
    LET s == MeanShape(x, eps, b)
        sqrt_recip_alphas_t == extract(sqrt_recip_alphas(sched, t), b)
        betas_t == extract(betas(sched, t), b)
        sqrt_one_minus_alphas_cumprod_t ==
            extract(sqrt_one_minus_alphas_cumprod(sched, t), b)
    IN [shape |-> s,
        data |-> [p \in Idx(s) |->
            At(sqrt_recip_alphas_t, p)
              * (At(x, p)
                 - (At(betas_t, p) * At(eps, p))
                     \div At(sqrt_one_minus_alphas_cumprod_t, p))]]

\* lines 51-57: the value returned; drew tells whether torch.randn_like ran.
\* noise is what randn_like(x) produces when it is called.
NoiseShape(model_mean, x, b) ==
    LET s == BroadcastShapes(<<b, 1, 1>>, x.shape)
    IN IF Compatible(s) THEN BroadcastShapes(model_mean.shape, s) ELSE s

\* the terminal test dropped: noise is added at every step
ReturnedAlwaysNoisy(model_mean, x, t_index, b, sched, noise) ==
    [ok |-> TRUE,
     out |-> [shape |-> model_mean.shape,
              data |-> [p \in Idx(model_mean.shape) |->
                          At(model_mean, p)
                            + sqrt_posterior_variance(sched, t_index) * At(noise, p)]],
     drew |-> TRUE]

Returned(model_mean, x, t_index, b, sched, noise) ==
    IF t_index = 0
    THEN [ok |-> TRUE, out |-> model_mean, drew |-> FALSE]
    ELSE LET posterior_variance_t == extract(sqrt_posterior_variance(sched, t_index), b)
             s == NoiseShape(model_mean, x, b)
         IN IF ~Compatible(s)
            THEN [ok |-> FALSE, out |-> EmptyTensor, drew |-> TRUE]
            ELSE [ok |-> TRUE,
                  out |-> [shape |-> s,
                           data |-> [p \in Idx(s) |->
                               At(model_mean, p)
                                 + At(posterior_variance_t, p) * At(noise, p)]],
                  drew |-> TRUE]

\* p_sample(model, x, t, seq_lens, t_index, betas, posterior_variance), lines 16-57;
\* t is the vector of b copies of t_index and n seeds the noise source
p_sample(x, b, lens, t_index, sched, n) ==
    IF AttnMaskFails(x, lens)
    THEN [ok |-> FALSE, called |-> FALSE]
    ELSE LET attn_mask == AttnMask(x, lens)
             eps == Model(x, t_index, attn_mask)
         IN IF ~Compatible(MeanShape(x, eps, b))
            THEN [ok |-> FALSE, called |-> TRUE, eps |-> eps]
            ELSE LET model_mean == ModelMean(x, eps, b, sched, t_index)
                     r == Returned(model_mean, x, t_index, b, sched, Randn(x.shape, n))
                 IN [ok |-> r.ok, called |-> TRUE, eps |-> eps,
                     attn_mask |-> attn_mask, model_mean |-> model_mean,
                     out |-> r.out, drew |-> r.drew]

\* ------------------------------------------------------------------ p_sample_loop
\* line 89: reversed(range(0, timesteps)), the t_index of each iteration in order
\* range(0, timesteps) without reversed
LoopOrderAscending(T) == [j \in 1..T |-> j - 1]
\* reversed(range(1, timesteps + 1)): off by one
LoopOrderFromT(T) == [j \in 1..T |-> T - j + 1]

LoopOrder(T) == [j \in 1..T |-> T - j]

\* lines 76-78: the starting noise, wrapped when noise_modulo is set
InitialNoise(shape, n, nm) ==
    IF nm # None THEN broadcast_mod(Randn(shape, n), nm[1]) ELSE Randn(shape, n)

\* lines 103-104: the state after the optional wrap
\* the wrap after the step left out
PostStepNoWrap(x, nm) == x

PostStep(x, nm) == IF nm # None THEN broadcast_mod(x, nm[1]) ELSE x

\* lines 105-109: the snapshots one iteration appends
\* a single append per iteration
SnapshotsOnce(traj, x) == Append(traj, x)

Snapshots(traj, x) == Append(Append(traj, x), x)

\* ------------------------------------------------------------------ sample
\* line 136: retval[i, :l, :] raises IndexError when i is past the batch
TrimFails(retval, lens) == Len(lens) > retval.shape[1]

\* line 136: [retval[i, :l, :] for i, l in enumerate(seq_lens)]
Trim(retval, lens) ==
    [e \in 1..Len(lens) |->
        LET rows == Min(lens[e], retval.shape[2])
        IN [rows |-> rows, cols |-> retval.shape[3],
            data |-> [q \in (1..rows) \X (1..retval.shape[3]) |->
                        retval.data[<<e, q[1], q[2]>>]]]]

\* ------------------------------------------------------------------ inputs
\* the sizes sampled for a dimension bounded by max: 1, which broadcasts, and max
Sizes(max) == {1, max}

\* seq_lens: none, one or MaxBatch lengths, each the shortest, the longest
\* allowed or one more than allowed
SeqLens(max_len) ==
    UNION {[1..m -> {1, max_len, max_len + 1}] : m \in {0} \cup Sizes(MaxBatch)}

NoDev == [step |-> -1, dim |-> 1, size |-> 1]

\* the denoiser keeps x's shape at every step, or (sampled for the first
\* scenario) gives one dimension another size at one step
Devs(T, sc) ==
    {NoDev} \cup (IF sc.sched = 1 THEN [step : 0..(T - 1), dim : 1..3, size : DevSizes]
                  ELSE {})

TMIdle ==
    /\ tmpc = "idle"
    /\ installed = TRUE
    /\ references = <<>>
    /\ n_threads = 1
    /\ taskq = <<>>
    /\ workers = <<>>
    /\ mapres = [number_left |-> 0, success |-> TRUE, value |-> <<>>]
    /\ runs = <<>>
    /\ tmresult = None

Init ==
    /\ pc = "start"
    /\ batch_size \in Sizes(MaxBatch)
    /\ seq_max_len \in Sizes(MaxLen)
    /\ seq_lens \in SeqLens(seq_max_len)
    /\ channels \in Sizes(MaxChannels)
    /\ timesteps \in 0..MaxT
    /\ noise_modulo \in {None} \cup Moduli
    /\ scenario \in Scenarios
    /\ dev \in Devs(timesteps, scenario)
    /\ img = EmptyTensor
    /\ imgs = <<>>
    /\ k = 0
    /\ img0 = EmptyTensor
    /\ calls = <<>>
    /\ mismatch = FALSE
    /\ result = <<>>
    /\ TMIdle

inputs == <<batch_size, seq_lens, seq_max_len, channels, timesteps, noise_modulo,
            scenario, dev>>

\* p_sample_loop lines 70-87: draw the starting noise
StartLoop ==
    /\ pc = "start"
    /\ \E n \in NoiseSeeds :
         /\ img' = InitialNoise(<<batch_size, seq_max_len, channels>>, n, noise_modulo)
         /\ img0' = img'
    /\ imgs' = <<>>
    /\ k' = 0
    /\ pc' = "loop"
    /\ UNCHANGED <<inputs, calls, mismatch, result, tmVars>>

\* p_sample_loop lines 89-109: one iteration of the for loop
LoopStep ==
    /\ pc = "loop"
    /\ k < timesteps
    /\ \E n \in NoiseSeeds :
         LET t_index == LoopOrder(timesteps)[k + 1]
             r == p_sample(img, batch_size, seq_lens, t_index, scenario.sched, n)
         IN /\ mismatch' = (mismatch \/ (r.called /\ r.eps.shape # img.shape))
            /\ IF r.ok
               THEN /\ img' = PostStep(r.out, noise_modulo)
                    /\ imgs' = Snapshots(imgs, img')
                    /\ calls' = Append(calls,
                                   [t_index |-> t_index, x |-> img,
                                    attn_mask |-> r.attn_mask,
                                    model_mean |-> r.model_mean,
                                    out |-> r.out, drew |-> r.drew,
                                    seed |-> IF r.drew THEN n ELSE 0])
                    /\ k' = k + 1
                    /\ pc' = "loop"
               ELSE /\ pc' = "error"
                    /\ UNCHANGED <<img, imgs, calls, k>>
    /\ UNCHANGED <<inputs, img0, result, tmVars>>

\* p_sample_loop line 110: the loop is exhausted, return imgs
LoopReturn ==
    /\ pc = "loop"
    /\ k = timesteps
    /\ pc' = "returned"
    /\ UNCHANGED <<inputs, img, imgs, k, img0, calls, mismatch, result, tmVars>>

\* sample lines 133-137: take the last entry and trim it
SampleReturn ==
    /\ pc = "returned"
    /\ IF imgs = <<>> \/ TrimFails(imgs[Len(imgs)], seq_lens)
       THEN /\ pc' = "error"
            /\ UNCHANGED result
       ELSE /\ pc' = "done"
            /\ result' = Trim(imgs[Len(imgs)], seq_lens)
    /\ UNCHANGED <<inputs, img, imgs, k, img0, calls, mismatch, tmVars>>

Next == StartLoop \/ LoopStep \/ LoopReturn \/ SampleReturn

Spec == Init /\ [][Next]_vars

\* ------------------------------------------------------------------ tmalign.py
\* chunksize=10 of pool.starmap
ChunkSize == 10

\* What running TMalign on a reference produces: isfile tells whether the
\* reference is a file, exit is the exit status, and lines are the lines of the
\* output: tm tells whether the line starts with "TM-score", chain is the
\* number in its first Chain_1/Chain_2 token (0: none), score the first number
\* after "= " on it.
ToolOK(s1, s2) ==
    [isfile |-> TRUE, exit |-> 0,
     lines |-> <<[tm |-> FALSE, chain |-> 1, score |-> 0],
                 [tm |-> TRUE, chain |-> 1, score |-> s1],
                 [tm |-> TRUE, chain |-> 2, score |-> s2]>>]

ToolFailures ==
    {[isfile |-> FALSE, exit |-> 0, lines |-> <<>>],
     [isfile |-> TRUE, exit |-> 1, lines |-> <<>>],
     [isfile |-> TRUE, exit |-> 0, lines |-> <<[tm |-> TRUE, chain |-> 1, score |-> 2]>>],
     [isfile |-> TRUE, exit |-> 0, lines |-> <<[tm |-> TRUE, chain |-> 0, score |-> 2]>>]}

\* line 39: the dict comprehension over score_lines; a later line overrides an
\* earlier one with the same key, a line with no Chain_ token raises IndexError
RECURSIVE ResultsDict(_, _)
ResultsDict(score_lines, d) ==
    IF score_lines = <<>> THEN [ok |-> TRUE, dict |-> d]
    ELSE LET s == Head(score_lines)
         IN IF s.chain = 0 THEN [ok |-> FALSE, exc |-> "IndexError"]
            ELSE ResultsDict(Tail(score_lines), [d EXCEPT ![s.chain] = <<s.score>>])

\* lines 31-34: the lines starting with "TM-score"
ScoreLines(lines) == SelectSeq(lines, LAMBDA l : l.tm)

\* line 40: the key whose score is returned
ReturnedChain == 2

\* run_tmalign(query, reference, fast), lines 14-40
run_tmalign(tool, exec) ==
    IF ~tool.isfile THEN [ok |-> FALSE, exc |-> "AssertionError"]
    ELSE IF ~exec THEN [ok |-> FALSE, exc |-> "FileNotFoundError"]
    ELSE IF tool.exit # 0 THEN [ok |-> FALSE, exc |-> "CalledProcessError"]
    ELSE LET r == ResultsDict(ScoreLines(tool.lines), [c \in 1..2 |-> None])
         IN IF ~r.ok THEN r
            ELSE IF r.dict[ReturnedChain] = None THEN [ok |-> FALSE, exc |-> "KeyError"]
            ELSE [ok |-> TRUE, score |-> r.dict[ReturnedChain][1]]

\* line 59: max(values), computed as Python does, left to right
\* min(values) in place of max(values)
RECURSIVE PyMin(_, _)
PyMin(values, best) ==
    IF values = <<>> THEN best
    ELSE PyMin(Tail(values), IF Head(values) < best THEN Head(values) ELSE best)

RECURSIVE PyMax(_, _)
PyMax(values, best) ==
    IF values = <<>> THEN best
    ELSE PyMax(Tail(values), IF Head(values) > best THEN Head(values) ELSE best)

\* Pool._get_tasks: the items of chunk c (chunks are numbered from 0)
ChunkItems(c, n) ==
    [j \in 1..(Min(n, (c + 1) * ChunkSize) - c * ChunkSize) |-> c * ChunkSize + j]

NumChunks(n) == (n + ChunkSize - 1) \div ChunkSize

\* MapResult._set(i, (success, result))
MapResultSet(mr, c, success, res) ==
    LET left == mr.number_left - 1
    IN IF success /\ mr.success
       THEN [number_left |-> left, success |-> TRUE,
             value |-> [j \in 1..Len(mr.value) |->
                          IF j > c * ChunkSize /\ j <= c * ChunkSize + Len(res)
                          THEN <<res[j - c * ChunkSize]>> ELSE mr.value[j]]]
       ELSE IF ~success /\ mr.success
       THEN [number_left |-> left, success |-> FALSE, value |-> res]
       ELSE [mr EXCEPT !.number_left = left]

\* the references sampled: n of them, reference hi scoring highest and
\* reference bad (0: none) failing the way fail says
RefList(n, hi, bad, fail) ==
    [j \in 1..n |-> IF j = bad THEN fail
                    ELSE ToolOK(1, IF j = hi THEN 5 ELSE 1 + (j % 3))]

IdleWorker == [busy |-> FALSE]

SamplerIdle ==
    /\ pc = "idle"
    /\ batch_size = 1
    /\ seq_lens = <<>>
    /\ seq_max_len = 1
    /\ channels = 1
    /\ timesteps = 0
    /\ noise_modulo = None
    /\ scenario \in {s \in Scenarios : s.sched = 1}
    /\ dev = NoDev
    /\ img = EmptyTensor
    /\ imgs = <<>>
    /\ k = 0
    /\ img0 = EmptyTensor
    /\ calls = <<>>
    /\ mismatch = FALSE
    /\ result = <<>>

InitTM ==
    /\ SamplerIdle
    /\ tmpc = "start"
    /\ installed \in BOOLEAN
    /\ \E n \in 0..MaxRefs :
         \E hi \in {1, (n + 1) \div 2, n}, bad \in {0, 1, n}, fail \in ToolFailures :
            references = RefList(n, hi, bad, fail)
    /\ n_threads \in 1..MaxThreads
    /\ taskq = <<>>
    /\ workers = <<>>
    /\ mapres = [number_left |-> 0, success |-> TRUE, value |-> <<>>]
    /\ runs = [j \in 1..Len(references) |-> 0]
    /\ tmresult = None

tmInputs == <<installed, references, n_threads>>

\* lines 50-55: build args, create the pool, hand the chunks to it
TMStart ==
    /\ tmpc = "start"
    /\ taskq' = [c \in 1..NumChunks(Len(references)) |-> c - 1]
    /\ workers' = [w \in 1..n_threads |-> IdleWorker]
    /\ mapres' = [number_left |-> NumChunks(Len(references)), success |-> TRUE,
                  value |-> [j \in 1..Len(references) |-> None]]
    /\ tmpc' = "map"
    /\ UNCHANGED <<samplerVars, tmInputs, runs, tmresult>>

\* an idle worker takes the next chunk off the task queue
TakeChunk(w) ==
    /\ tmpc = "map"
    /\ ~workers[w].busy
    /\ taskq # <<>>
    /\ workers' = [workers EXCEPT ![w] =
                     [busy |-> TRUE, chunk |-> Head(taskq), done |-> <<>>]]
    /\ taskq' = Tail(taskq)
    /\ UNCHANGED <<samplerVars, tmInputs, tmpc, mapres, runs, tmresult>>

\* a worker runs run_tmalign on the next item of its chunk (mapstar); the chunk
\* ends, and its result is posted, at an exception or after its last item
RunItem(w) ==
    /\ tmpc = "map"
    /\ workers[w].busy
    /\ LET c == workers[w].chunk
           items == ChunkItems(c, Len(references))
           j == items[Len(workers[w].done) + 1]
           r == run_tmalign(references[j], installed)
       IN /\ runs' = [runs EXCEPT ![j] = @ + 1]
          /\ IF ~r.ok
             THEN /\ mapres' = MapResultSet(mapres, c, FALSE, r.exc)
                  /\ workers' = [workers EXCEPT ![w] = IdleWorker]
             ELSE IF Len(workers[w].done) + 1 = Len(items)
             THEN /\ mapres' = MapResultSet(mapres, c, TRUE, Append(workers[w].done, r.score))
                  /\ workers' = [workers EXCEPT ![w] = IdleWorker]
             ELSE /\ workers' = [workers EXCEPT ![w].done = Append(@, r.score)]
                  /\ UNCHANGED mapres
    /\ UNCHANGED <<samplerVars, tmInputs, tmpc, taskq, tmresult>>

\* lines 55-59: starmap returns or raises once every chunk is done; then
\* close, join and max(values)
TMFinish ==
    /\ tmpc = "map"
    /\ mapres.number_left = 0
    /\ IF mapres.success /\ mapres.value # <<>>
       THEN /\ tmresult' = <<PyMax([j \in 1..(Len(mapres.value) - 1) |-> mapres.value[j + 1][1]],
                                   mapres.value[1][1])>>
            /\ tmpc' = "returned"
       ELSE /\ tmpc' = "raised"
            /\ UNCHANGED tmresult
    /\ UNCHANGED <<samplerVars, tmInputs, taskq, workers, mapres, runs>>

NextTM ==
    \/ TMStart
    \/ \E w \in 1..n_threads : TakeChunk(w)
    \/ \E w \in 1..n_threads : RunItem(w)
    \/ TMFinish

SpecTM == InitTM /\ [][NextTM]_vars

\* ================================================================== claims
InRange(x, m) == \A p \in Idx(x.shape) : 0 <= x.data[p] /\ x.data[p] < m

PreconditionsHold ==
    /\ batch_size = Len(seq_lens)
    /\ \A e \in 1..Len(seq_lens) : seq_lens[e] <= seq_max_len

LoopReturned == pc \in {"returned", "done"}

\* C1: a p_sample_loop call that runs to completion returns a trajectory of
\* exactly 2T entries, whether or not noise_modulo is set; while the loop
\* runs the trajectory holds two entries per completed iteration.
C1_TrajectoryLength ==
    /\ pc \in {"loop", "returned", "done"} => Len(imgs) = 2 * k
    /\ LoopReturned => Len(imgs) = 2 * timesteps

C1_Witness ==
    /\ pc = "returned"
    /\ timesteps = 2
    /\ noise_modulo = None
    /\ Len(imgs) = 4

\* C2: p_sample is invoked exactly T times, with t_index T-1, T-2, ..., 0 in
\* this order, the first call on the initial noise and every later call on
\* the state the previous call produced (after the optional wrap); before the
\* loop returns the calls made are a prefix of this sequence.
C2_StepOrder ==
    /\ Len(calls) = k /\ k <= timesteps
    /\ \A j \in 1..Len(calls) :
         /\ calls[j].t_index = timesteps - j
         /\ calls[j].x = IF j = 1 THEN img0
                         ELSE IF noise_modulo = None THEN calls[j - 1].out
                         ELSE broadcast_mod(calls[j - 1].out, noise_modulo[1])
    /\ LoopReturned => Len(calls) = timesteps

C2_Witness ==
    /\ pc = "returned"
    /\ timesteps = 2
    /\ Len(calls) = 2
    /\ calls[2].x # calls[1].x

\* C3: at t_index = 0 p_sample returns model_mean and draws no noise,
\* whatever the noise source would produce; at any other t_index it draws
\* noise and returns model_mean + sqrt(posterior_variance_t) * noise.  A run
\* of T >= 1 steps that completes drew noise in exactly T - 1 steps.
C3_TerminalStepPurity ==
    /\ \A j \in 1..Len(calls) :
         LET c == calls[j]
         IN IF c.t_index = 0
            THEN c.out = c.model_mean /\ ~c.drew
            ELSE /\ c.drew
                 /\ c.out.shape = c.model_mean.shape
                 /\ \A p \in Idx(c.out.shape) :
                      c.out.data[p] =
                        c.model_mean.data[p]
                          + sqrt_posterior_variance(scenario.sched, c.t_index)
                              * At(Randn(c.x.shape, c.seed), p)
    /\ (LoopReturned /\ timesteps >= 1) =>
         Cardinality({j \in 1..Len(calls) : calls[j].drew}) = timesteps - 1

C3_Witness ==
    /\ pc = "returned"
    /\ timesteps = 2
    /\ calls[1].seed = 2
    /\ calls[1].out # calls[1].model_mean
    /\ calls[2].t_index = 0
    /\ calls[2].out = calls[2].model_mean

\* C4: under the BatchSampler preconditions sample returns batch_size arrays,
\* element i with length_i rows and `channels` columns, equal to rows
\* [0, length_i) of example i of the last trajectory entry.
C4_TrimmedOutput ==
    (pc = "done" /\ PreconditionsHold) =>
        /\ Len(result) = batch_size
        /\ \A e \in 1..Len(result) :
             /\ result[e].rows = seq_lens[e]
             /\ result[e].cols = channels
             /\ \A q \in DOMAIN result[e].data :
                  result[e].data[q] = imgs[Len(imgs)].data[<<e, q[1], q[2]>>]

\* C5: with noise_modulo set, the initial noise state, every state passed to
\* p_sample and every trajectory entry lie elementwise in [0, modulo).
C5_ModuloRange ==
    noise_modulo # None =>
        /\ pc \in {"loop", "returned", "done"} => InRange(img0, noise_modulo[1])
        /\ \A j \in 1..Len(calls) : InRange(calls[j].x, noise_modulo[1])
        /\ \A j \in 1..Len(imgs) : InRange(imgs[j], noise_modulo[1])

C5_Witness ==
    /\ noise_modulo # None
    /\ pc = "returned"
    /\ timesteps = 2
    /\ ~InRange(calls[1].out, noise_modulo[1])
    /\ ~InRange(calls[2].out, noise_modulo[1])

\* C6: under the preconditions, at every timestep the mask handed to the
\* denoiser is the [batch, max_len] array whose row i is true exactly at
\* positions [0, length_i); it is the same at every timestep.
C6_MaskConstant ==
    PreconditionsHold =>
        \A j \in 1..Len(calls) :
            calls[j].attn_mask =
                [q \in (1..batch_size) \X (1..seq_max_len) |-> q[2] <= seq_lens[q[1]]]

\* C7: a sample call that violates a BatchSampler precondition never
\* returns a result.
C7_PreconditionsEnforced == ~PreconditionsHold => pc # "done"

\* C8: once the denoiser has returned an output whose shape differs from x,
\* the run has stopped with an error: no later step runs and nothing is
\* returned.
C8_ShapeMismatchFails == mismatch => pc = "error"

\* C10: trajectory entries 2k and 2k+1 are equal and are the state the k-th
\* iteration (timestep T-1-k) produced, after the optional wrap; for T >= 1
\* the last entry, which sample trims and returns, is the output of the
\* noise-free t_index = 0 step; for T = 0 sample returns nothing.
C10_DuplicateSnapshots ==
    /\ LoopReturned =>
         \A j \in 1..timesteps :
            /\ calls[j].t_index = timesteps - j
            /\ imgs[2 * j - 1] = imgs[2 * j]
            /\ imgs[2 * j] = IF noise_modulo = None THEN calls[j].out
                             ELSE broadcast_mod(calls[j].out, noise_modulo[1])
    /\ pc = "done" =>
         /\ timesteps >= 1
         /\ calls[timesteps].t_index = 0
         /\ ~calls[timesteps].drew
         /\ imgs[Len(imgs)] = IF noise_modulo = None THEN calls[timesteps].model_mean
                              ELSE broadcast_mod(calls[timesteps].model_mean, noise_modulo[1])
         /\ \A e \in 1..Len(result) : \A q \in DOMAIN result[e].data :
                result[e].data[q] = imgs[Len(imgs)].data[<<e, q[1], q[2]>>]
    /\ timesteps = 0 => (pc # "done" /\ imgs = <<>>)

C10_Witness ==
    /\ pc = "done"
    /\ timesteps = 2
    /\ imgs[1] = imgs[2]
    /\ imgs[3] = imgs[4]
    /\ imgs[2] # imgs[3]
    /\ result # <<>>

\* ------------------------------------------------------------------ C9
\* the score run_tmalign is to return for a reference: the one on the
\* TM-score line of Chain_2
Chain2Scores(tool) ==
    {tool.lines[l].score : l \in {l \in 1..Len(tool.lines) :
                                    tool.lines[l].tm /\ tool.lines[l].chain = 2}}

Fails(tool) ==
    \/ ~installed
    \/ ~tool.isfile
    \/ tool.exit # 0
    \/ Chain2Scores(tool) = {}
    \/ \E l \in 1..Len(tool.lines) : tool.lines[l].tm /\ tool.lines[l].chain = 0

\* C9: max_tm_across_refs runs run_tmalign exactly once per reference and
\* returns the maximum of the scores, however the invocations are spread over
\* the workers and in whatever order they complete; if an invocation fails
\* the call raises and returns no score.
C9_MaxAcrossRefs ==
    /\ \A j \in 1..Len(references) : runs[j] <= 1
    /\ tmpc = "returned" =>
         /\ \A j \in 1..Len(references) : runs[j] = 1
         /\ \E j \in 1..Len(references) :
              /\ tmresult = <<CHOOSE v \in Chain2Scores(references[j]) : TRUE>>
              /\ \A h \in 1..Len(references) :
                   \A v \in Chain2Scores(references[h]) : v <= tmresult[1]
    /\ (\E j \in 1..Len(references) : Fails(references[j])) =>
         (tmpc # "returned" /\ tmresult = None)
    /\ (tmpc = "raised" /\ references # <<>>) =>
         \E j \in 1..Len(references) : Fails(references[j])

C9_Witness ==
    /\ tmpc = "returned"
    /\ Len(references) > ChunkSize
    /\ n_threads >= 2
    /\ tmresult = <<5>>
    /\ \E j \in (ChunkSize + 1)..Len(references) :
         Chain2Scores(references[j]) = {5}

====
